---- MODULE Spec2Model ----
(***************************************************************************)
(* Model of the tcp_example server (server/src/server.rs, server/src/lib.rs)*)
(* and of the shipped client (client/src/lib.rs, client/src/agent.rs).     *)
(*                                                                         *)
(* One acceptor (TcpServer::run) spawns one handler task per accepted      *)
(* connection (TcpServer::handle_client).  All handlers share the client   *)
(* store, a HashMap behind a tokio Mutex.  The peer of a connection is     *)
(* either the shipped client (Client::run) or an arbitrary peer whose      *)
(* frames are drawn from a small set at the moment the handler reads.      *)
(*                                                                         *)
(* A handler step is the code between two suspension points (.await).      *)
(* f64 coordinates are modelled in tenths: 0.2 is 2, 0.6 is 6.             *)
(***************************************************************************)
EXTENDS Integers, Sequences, FiniteSets, TLC

\* Number of connections the acceptor accepts in a run.
MaxConns == 2

Conns == 1..MaxConns

\* CLIENT_NAME values used by the peers.
Names == {"a", "b"}

\* The names the peer of connection h may declare.  Names are interchangeable,
\* so the first connection's is fixed.
DeclaredNames(h) == IF h = 1 THEN {"a"} ELSE Names

\* The keys the store can get: a declared name, or the initial current_client.
Keys == Names \cup {""}

\* The connection whose peer may be any peer; the others' is the shipped client.
ArbitraryPeer(h) == h = 1

VARIABLES
    listener,        \* TcpServer::run: "listening" or "failed" (run returned Err)
    accepted,        \* number of connections accepted so far
    peer,            \* per connection: "none", "client" (Client::run) or "rogue"
    clients,         \* TcpServer.clients: the HashMap inside the Mutex
    lock,            \* holder of the tokio Mutex guard: 0 when free
    pc,              \* per handler: position in handle_client
    current_client,  \* per handler: local current_client
    message,         \* per handler: the frame read and not yet consumed
    point,           \* per handler: number of movements taken by the for loop
    sink,            \* per connection: envelopes the handler has written
    stream,          \* per connection: frames the shipped client has written, unread
    client_pc,       \* per shipped client: position in Client::run
    client_name,     \* per shipped client: Client.client_name
    agent,           \* per shipped client: Agent.current_position
    client_read,     \* per shipped client: number of sink envelopes it has read
    first_frame,     \* per handler: kind of the first frame read (history)
    consumed,        \* per handler: number of frames read inside the for loop (history)
    inserts,         \* per handler: number of HashMap inserts performed (history)
    last_written,    \* per handler: the ClientState of its latest insert (history)
    last_env,        \* per key: the envelope of the latest insert for the key (history)
    reported         \* per handler: the ClientState printed at the end

vars == << listener, accepted, peer, clients, lock, pc, current_client, message,
           point, sink, stream, client_pc, client_name, agent, client_read,
           first_frame, consumed, inserts, last_written, last_env, reported >>

----------------------------------------------------------------------------
\* Data model (server/src/lib.rs)

Point(x, y, z) == [x |-> x, y |-> y, z |-> z]

\* Point::default()
PointDefault == Point(0, 0, 0)

ClientOnConnect(name, msg, pos) ==
    [kind |-> "ClientOnConnect", client_name |-> name, message |-> msg,
     current_position |-> pos]

ClientCommandResponse(msg, pos) ==
    [kind |-> "ClientCommandResponse", message |-> msg, current_position |-> pos]

ClientFailed(cmd, pos) ==
    [kind |-> "Failed", server_command |-> cmd, current_position |-> pos]

ServerOnConnect(name, msg) ==
    [kind |-> "OnConnect", client_name |-> name, message |-> msg]

ServerMoveCommand(p) == [kind |-> "ServerMoveCommand", target |-> p]

ServerFailed(reason) == [kind |-> "ServerFailed", reason |-> reason]

\* Results of stream.next() that carry no envelope.
StreamEnd == [kind |-> "StreamEnd"]      \* None: the peer closed the stream
FrameError == [kind |-> "FrameError"]    \* Some(Err(_)): the frame does not decode

\* No frame held (before the first read, or after the frame was moved out).
NoMessage == [kind |-> "NoMessage"]

ClientState(msg, pos) == [last_message |-> msg, current_position |-> pos]

NoState == [kind |-> "NoState"]

\* Mutant: the name is stored in place of the message.
FromClientOnConnectName(m) == ClientState(m.client_name, m.current_position)

FromClientOnConnect(m) == ClientState(m.message, m.current_position)

\* Mutant: the position of the response is not taken over.
FromClientCommandResponseNoPosition(m) == ClientState(m.message, PointDefault)

FromClientCommandResponse(m) == ClientState(m.message, m.current_position)

FromClientFailed(m) == ClientState(m.server_command, m.current_position)

\* client.into() for the variant held.
Into(m) ==
    CASE m.kind = "ClientOnConnect" -> FromClientOnConnect(m)
      [] m.kind = "ClientCommandResponse" -> FromClientCommandResponse(m)
      [] m.kind = "Failed" -> FromClientFailed(m)

\* HashMap::default()
EmptyStore == [k \in {} |-> NoState]

\* Mutant: the insert replaces the whole map.
InsertFresh(map, key, value) == [k \in {key} |-> value]

\* Mutant: the insert keeps an entry that exists (entry().or_insert()).
InsertIfAbsent(map, key, value) ==
    [k \in (DOMAIN map) \cup {key} |-> IF k \in DOMAIN map THEN map[k] ELSE value]

\* HashMap::insert
Insert(map, key, value) ==
    [k \in (DOMAIN map) \cup {key} |-> IF k = key THEN value ELSE map[k]]

\* HashMap::get
Get(map, key) == IF key \in DOMAIN map THEN map[key] ELSE NoState

\* Mutant: no position is scripted.
movementsEmpty == << >>

\* The scripted positions of handle_client.
movements == << Point(0, 0, 0), Point(0, 0, 2), Point(0, 0, 4), Point(0, 0, 6) >>

\* The greeting of the acknowledgement.
Greeting == "hello"

----------------------------------------------------------------------------
\* The environment of a handler

\* A position an arbitrary peer reports: never the commanded one.
OffTarget(h) == Point(0, 0, 2 * point[h] + 1)

\* Frames an arbitrary peer may have put on the stream.
RogueFrames(h) ==
    { ClientOnConnect(n, "hello", OffTarget(h)) : n \in DeclaredNames(h) }
      \cup { ClientCommandResponse("success", OffTarget(h)),
             ClientFailed("blocked", OffTarget(h)),
             StreamEnd, FrameError }

\* What stream.next() may yield for handler h now; empty when the read blocks.
Incoming(h) ==
    IF peer[h] = "rogue" THEN RogueFrames(h)
    ELSE IF stream[h] # << >> THEN { Head(stream[h]) }
    ELSE IF client_pc[h] = "failed" THEN { StreamEnd }
    ELSE {}

\* The stream after the read.
Rest(h) == IF stream[h] # << >> THEN Tail(stream[h]) ELSE stream[h]

\* Whether a write to the peer of h may fail (the peer has gone).
WriteMayFail(h) == peer[h] = "rogue"

Terminal == {"closed", "error", "panicked"}

\* Mutant: the handler runs in the acceptor's own task and its failure ends run.
SpawnedInline(l, outcome) == IF outcome \in {"error", "panicked"} THEN "failed" ELSE l

\* tokio::spawn: the task's panic or Err stays in the task.
Spawned(l, outcome) == l

Init ==
    /\ listener = "listening"
    /\ accepted = 0
    /\ peer = [h \in Conns |-> "none"]
    /\ clients = EmptyStore
    /\ lock = 0
    /\ pc = [h \in Conns |-> "unborn"]
    /\ current_client = [h \in Conns |-> ""]
    /\ message = [h \in Conns |-> NoMessage]
    /\ point = [h \in Conns |-> 0]
    /\ sink = [h \in Conns |-> << >>]
    /\ stream = [h \in Conns |-> << >>]
    /\ client_pc = [h \in Conns |-> "none"]
    /\ client_name = [h \in Conns |-> ""]
    /\ agent = [h \in Conns |-> PointDefault]
    /\ client_read = [h \in Conns |-> 0]
    /\ first_frame = [h \in Conns |-> "NoMessage"]
    /\ consumed = [h \in Conns |-> 0]
    /\ inserts = [h \in Conns |-> 0]
    /\ last_written = [h \in Conns |-> NoState]
    /\ last_env = [k \in Keys |-> NoMessage]
    /\ reported = [h \in Conns |-> NoState]


----------------------------------------------------------------------------
\* TcpServer::run

handlerVars == << pc, current_client, message, point, sink >>
storeVars == << clients, lock, last_env >>
clientVars == << client_pc, client_name, agent, client_read >>
historyVars == << first_frame, consumed, inserts, last_written, reported >>

\* listener.accept() returns a socket; the handler is spawned on it.
Accept(h) ==
    /\ listener = "listening"
    /\ h = accepted + 1
    /\ h \in Conns
    /\ accepted' = h
    /\ pc' = [pc EXCEPT ![h] = "hs_read"]
    /\ \/ /\ ArbitraryPeer(h)
          /\ peer' = [peer EXCEPT ![h] = "rogue"]
          /\ UNCHANGED << client_pc, client_name >>
       \/ \E n \in DeclaredNames(h) :
            /\ peer' = [peer EXCEPT ![h] = "client"]
            /\ client_pc' = [client_pc EXCEPT ![h] = "start"]
            /\ client_name' = [client_name EXCEPT ![h] = n]
    /\ UNCHANGED << listener, current_client, message, point, sink, stream,
                    agent, client_read, storeVars, historyVars >>

\* listener.accept().await? fails: run returns the error.
AcceptError ==
    /\ listener = "listening"
    /\ accepted < MaxConns
    /\ listener' = "failed"
    /\ UNCHANGED << accepted, peer, handlerVars, stream, storeVars, clientVars,
                    historyVars >>

----------------------------------------------------------------------------
\* TcpServer::handle_client

\* Mutant: the handler returns Ok(()) right after the loop.
AfterIterationNoSnapshot(h) == IF point[h] < Len(movements) THEN "loop_send" ELSE "closed"

\* Where the for loop goes next: into a turn, or past the loop when the
\* iterator is exhausted.
AfterIteration(h) == IF point[h] < Len(movements) THEN "loop_send" ELSE "final_lock"

\* The first read: stream.next().await.expect(..).expect(..) and the if let.
HsRead(h) ==
    /\ pc[h] = "hs_read"
    /\ \E f \in Incoming(h) :
         /\ message' = [message EXCEPT ![h] = f]
         /\ first_frame' = [first_frame EXCEPT ![h] = f.kind]
         /\ IF f.kind \in {"StreamEnd", "FrameError"}
            THEN /\ pc' = [pc EXCEPT ![h] = "panicked"]
                 /\ listener' = Spawned(listener, "panicked")
                 /\ UNCHANGED current_client
            ELSE IF f.kind = "ClientOnConnect"
            THEN /\ pc' = [pc EXCEPT ![h] = "hs_lock"]
                 /\ current_client' = [current_client EXCEPT ![h] = f.client_name]
                 /\ UNCHANGED listener
            ELSE /\ pc' = [pc EXCEPT ![h] = AfterIteration(h)]
                 /\ UNCHANGED << listener, current_client >>
    /\ stream' = [stream EXCEPT ![h] = Rest(h)]
    /\ UNCHANGED << accepted, peer, point, sink, storeVars, clientVars,
                    consumed, inserts, last_written, reported >>

\* Mutant: lock() resolves while another guard is alive.
AvailableAlways(l) == TRUE

\* tokio Mutex: lock() resolves only when no guard is alive.
Available(l) == l = 0

\* Mutant: the guard is not dropped and lives on to the end of its scope.
NotDropped(h) == h

\* drop(lock): the value of the Mutex once the guard of h is dropped.
Dropped(h) == 0

\* clients_state.lock().await, at any of its call sites.
Lock(h, at, next) ==
    /\ pc[h] = at
    /\ Available(lock)
    /\ lock' = h
    /\ pc' = [pc EXCEPT ![h] = next]
    /\ UNCHANGED << listener, accepted, peer, clients, last_env, current_client,
                    message, point, sink, stream, clientVars, historyVars >>

\* lock.insert(current_client.clone(), client.into()); drop(lock)
InsertAndDrop(h, at, next) ==
    /\ pc[h] = at
    /\ lock = h
    /\ clients' = Insert(clients, current_client[h], Into(message[h]))
    /\ last_env' = [last_env EXCEPT ![current_client[h]] = message[h]]
    /\ last_written' = [last_written EXCEPT ![h] = Into(message[h])]
    /\ inserts' = [inserts EXCEPT ![h] = @ + 1]
    /\ message' = [message EXCEPT ![h] = NoMessage]
    /\ lock' = Dropped(h)
    /\ pc' = [pc EXCEPT ![h] = next]
    /\ listener' = IF next \in Terminal THEN Spawned(listener, next) ELSE listener
    /\ UNCHANGED << accepted, peer, current_client, point, sink, stream,
                    clientVars, first_frame, consumed, reported >>

\* sink.send(envelope).await.expect(..)
Send(h, at, envelope, next) ==
    /\ pc[h] = at
    /\ \/ /\ sink' = [sink EXCEPT ![h] = Append(@, envelope)]
          /\ pc' = [pc EXCEPT ![h] = next]
          /\ UNCHANGED listener
       \/ /\ WriteMayFail(h)
          /\ pc' = [pc EXCEPT ![h] = "panicked"]
          /\ listener' = Spawned(listener, "panicked")
          /\ UNCHANGED sink
    /\ UNCHANGED << accepted, peer, current_client, message, stream, storeVars,
                    clientVars, historyVars >>

HsLock(h) ==
    /\ pc[h] = "hs_lock"
    /\ Lock(h, "hs_lock", "hs_insert")

HsInsert(h) ==
    /\ pc[h] = "hs_insert"
    /\ InsertAndDrop(h, "hs_insert", "hs_send")

\* Mutant: the acknowledgement is written a second time.
HsSendTwice(h) ==
    /\ Send(h, "hs_send", ServerOnConnect(current_client[h], Greeting),
            IF sink[h] = << >> THEN "hs_send" ELSE AfterIteration(h))
    /\ UNCHANGED point

HsSend(h) ==
    /\ Send(h, "hs_send", ServerOnConnect(current_client[h], Greeting),
            AfterIteration(h))
    /\ UNCHANGED point

\* Mutant: the iterator runs from the back.
NextPointReversed(h) == movements[Len(movements) - point[h]]

\* for point in movements: the point the iterator yields next.
NextPoint(h) == movements[point[h] + 1]

\* One turn of the for loop up to the write of the command.
LoopSend(h) ==
    /\ point[h] < Len(movements)
    /\ Send(h, "loop_send", ServerMoveCommand(NextPoint(h)), "loop_read")
    /\ point' = [point EXCEPT ![h] = IF pc'[h] = "loop_read" THEN @ + 1 ELSE @]

\* Mutant: a second ClientOnConnect is taken as an update.
ArmLenient(f) ==
    CASE f.kind \in {"ClientCommandResponse", "ClientOnConnect"} -> "resp_lock"
      [] f.kind = "Failed" -> "fail_lock"
      [] OTHER -> "error"

\* Mutant: a frame that does not decode is skipped.
ArmSkipBadFrame(f) ==
    CASE f.kind = "ClientCommandResponse" -> "resp_lock"
      [] f.kind = "Failed" -> "fail_lock"
      [] f.kind = "FrameError" -> "loop_read"
      [] OTHER -> "error"

\* Where the match arm of a frame leads.
Arm(f) ==
    CASE f.kind = "ClientCommandResponse" -> "resp_lock"
      [] f.kind = "Failed" -> "fail_lock"
      [] OTHER -> "error"

\* The read of the loop, the two ? and the match.
LoopRead(h) ==
    /\ pc[h] = "loop_read"
    /\ \E f \in Incoming(h) :
         /\ message' = [message EXCEPT ![h] = f]
         /\ pc' = [pc EXCEPT ![h] = Arm(f)]
         /\ listener' = IF Arm(f) \in Terminal THEN Spawned(listener, Arm(f))
                        ELSE listener
         /\ consumed' = [consumed EXCEPT ![h] =
                IF f.kind \in {"StreamEnd", "FrameError"} THEN @ ELSE @ + 1]
    /\ stream' = [stream EXCEPT ![h] = Rest(h)]
    /\ UNCHANGED << accepted, peer, current_client, point, sink, storeVars,
                    clientVars, first_frame, inserts, last_written, reported >>

RespLock(h) ==
    /\ pc[h] = "resp_lock"
    /\ Lock(h, "resp_lock", "resp_insert")

RespInsert(h) ==
    /\ pc[h] = "resp_insert"
    /\ InsertAndDrop(h, "resp_insert", AfterIteration(h))

FailLock(h) ==
    /\ pc[h] = "fail_lock"
    /\ Lock(h, "fail_lock", "fail_insert")

\* Mutant: the Failed arm does not return.
FailInsertContinue(h) == InsertAndDrop(h, "fail_insert", AfterIteration(h))

FailInsert(h) ==
    /\ pc[h] = "fail_insert"
    /\ InsertAndDrop(h, "fail_insert", "error")

FinalLock(h) ==
    /\ pc[h] = "final_lock"
    /\ Lock(h, "final_lock", "final_get")

\* lock.get(current_client).ok_or_else(..)?, the println and the end of the scope.
FinalGet(h) ==
    /\ pc[h] = "final_get"
    /\ lock = h
    /\ lock' = 0
    /\ IF current_client[h] \in DOMAIN clients
       THEN /\ reported' = [reported EXCEPT ![h] = Get(clients, current_client[h])]
            /\ pc' = [pc EXCEPT ![h] = "closed"]
            /\ listener' = Spawned(listener, "closed")
       ELSE /\ pc' = [pc EXCEPT ![h] = "error"]
            /\ listener' = Spawned(listener, "error")
            /\ UNCHANGED reported
    /\ UNCHANGED << accepted, peer, clients, last_env, current_client, message,
                    point, sink, stream, clientVars, first_frame, consumed,
                    inserts, last_written >>

----------------------------------------------------------------------------
\* Client::run

\* Mutant: the socket stays open after the handler has returned.
ServerIncomingKeptOpen(h) ==
    IF client_read[h] < Len(sink[h]) THEN { sink[h][client_read[h] + 1] } ELSE {}

\* What the client's stream.next() may yield now; empty when the read blocks.
ServerIncoming(h) ==
    IF client_read[h] < Len(sink[h]) THEN { sink[h][client_read[h] + 1] }
    ELSE IF pc[h] \in Terminal \cup {"gone"} THEN { StreamEnd }
    ELSE {}

\* A write of the client can fail once the other end has dropped the socket
\* (never the first write on the connection, which the kernel still buffers).
ClientWriteMayFail(h) == pc[h] \in Terminal \cup {"gone"}

\* Mutant: the agent keeps its position.
UpdatePositionStale(current_position, new_position) == current_position

\* Agent::update_position
UpdatePosition(current_position, new_position) == new_position

\* Mutant: an if let with no else, any first envelope passes.
AfterAckLenient(m) == "loop"

\* The if let on the first server envelope: OnConnect or "server sent wrong
\* message" (a read that yields None or Err returns its error before it).
AfterAck(m) == IF m.kind = "OnConnect" THEN "loop" ELSE "failed"

\* connect, then send ClientOnConnect.
ClientConnect(h) ==
    /\ client_pc[h] = "start"
    /\ stream' = [stream EXCEPT ![h] =
          Append(@, ClientOnConnect(client_name[h], "hello", agent[h]))]
    /\ client_pc' = [client_pc EXCEPT ![h] = "await_ack"]
    /\ UNCHANGED << listener, accepted, peer, handlerVars, storeVars,
                    client_name, agent, client_read, historyVars >>

\* The read of the acknowledgement and the if let.
ClientAwaitAck(h) ==
    /\ client_pc[h] = "await_ack"
    /\ \E m \in ServerIncoming(h) :
         /\ client_pc' = [client_pc EXCEPT ![h] = AfterAck(m)]
         /\ client_read' = [client_read EXCEPT ![h] =
                IF m.kind = "StreamEnd" THEN @ ELSE @ + 1]
    /\ UNCHANGED << listener, accepted, peer, handlerVars, stream, storeVars,
                    client_name, agent, historyVars >>

\* One turn of the loop: read, match, update_position, send the response.
ClientLoop(h) ==
    /\ client_pc[h] = "loop"
    /\ \E m \in ServerIncoming(h) :
         /\ client_read' = [client_read EXCEPT ![h] =
                IF m.kind = "StreamEnd" THEN @ ELSE @ + 1]
         /\ IF m.kind = "ServerMoveCommand"
            THEN /\ agent' = [agent EXCEPT ![h] = UpdatePosition(@, m.target)]
                 /\ \/ /\ stream' = [stream EXCEPT ![h] =
                             Append(@, ClientCommandResponse("success", agent'[h]))]
                       /\ UNCHANGED client_pc
                    \/ /\ ClientWriteMayFail(h)
                       /\ client_pc' = [client_pc EXCEPT ![h] = "failed"]
                       /\ UNCHANGED stream
            ELSE /\ client_pc' = [client_pc EXCEPT ![h] = "failed"]
                 /\ UNCHANGED << agent, stream >>
    /\ UNCHANGED << listener, accepted, peer, handlerVars, storeVars,
                    client_name, historyVars >>

----------------------------------------------------------------------------

Next ==
    \/ \E h \in Conns : Accept(h)
    \/ AcceptError
    \/ \E h \in Conns : HsRead(h)
    \/ \E h \in Conns : HsLock(h)
    \/ \E h \in Conns : HsInsert(h)
    \/ \E h \in Conns : HsSend(h)
    \/ \E h \in Conns : LoopSend(h)
    \/ \E h \in Conns : LoopRead(h)
    \/ \E h \in Conns : RespLock(h)
    \/ \E h \in Conns : RespInsert(h)
    \/ \E h \in Conns : FailLock(h)
    \/ \E h \in Conns : FailInsert(h)
    \/ \E h \in Conns : FinalLock(h)
    \/ \E h \in Conns : FinalGet(h)
    \/ \E h \in Conns : ClientConnect(h)
    \/ \E h \in Conns : ClientAwaitAck(h)
    \/ \E h \in Conns : ClientLoop(h)

Spec == Init /\ [][Next]_vars

\* The tokio runtime polls every task that can make progress: a handler task
\* whose next step is ready, and a client whose next step is ready.  Nothing
\* obliges an arbitrary peer to send, and nothing obliges a connection to arrive.
HandlerStep(h) ==
    \/ peer[h] = "client" /\ (HsRead(h) \/ LoopRead(h))
    \/ HsLock(h) \/ HsInsert(h) \/ HsSend(h) \/ LoopSend(h)
    \/ RespLock(h) \/ RespInsert(h) \/ FailLock(h) \/ FailInsert(h)
    \/ FinalLock(h) \/ FinalGet(h)

ClientStep(h) == ClientConnect(h) \/ ClientAwaitAck(h) \/ ClientLoop(h)

Fairness == \A h \in Conns : WF_vars(HandlerStep(h)) /\ WF_vars(ClientStep(h))

FairSpec == Spec /\ Fairness

-----------------------------------------------------------------------------
\* Client::run against any server: the other end of connection 1 is not
\* handle_client but a peer that writes any frames it likes and may close.

MaxRemote == 3

\* What a server may put on the wire: the three ServerMessage variants, or
\* bytes that do not decode.
RemoteEnvelopes(h) ==
    { ServerOnConnect(client_name[h], Greeting) }
        \cup { ServerMoveCommand(movements[i]) : i \in 1..Len(movements) }
        \cup { ServerFailed("failed"), FrameError }

\* Client::from_env and TcpStream::connect have succeeded on connection 1.
ClientInit ==
    /\ listener = "listening"
    /\ accepted = 1
    /\ peer = [h \in Conns |-> IF h = 1 THEN "client" ELSE "none"]
    /\ clients = EmptyStore
    /\ lock = 0
    /\ pc = [h \in Conns |-> IF h = 1 THEN "remote" ELSE "unborn"]
    /\ current_client = [h \in Conns |-> ""]
    /\ message = [h \in Conns |-> NoMessage]
    /\ point = [h \in Conns |-> 0]
    /\ sink = [h \in Conns |-> << >>]
    /\ stream = [h \in Conns |-> << >>]
    /\ client_pc = [h \in Conns |-> IF h = 1 THEN "start" ELSE "none"]
    /\ client_name = [h \in Conns |-> IF h = 1 THEN "a" ELSE ""]
    /\ agent = [h \in Conns |-> PointDefault]
    /\ client_read = [h \in Conns |-> 0]
    /\ first_frame = [h \in Conns |-> "NoMessage"]
    /\ consumed = [h \in Conns |-> 0]
    /\ inserts = [h \in Conns |-> 0]
    /\ last_written = [h \in Conns |-> NoState]
    /\ last_env = [k \in Keys |-> NoMessage]
    /\ reported = [h \in Conns |-> NoState]

\* The server end writes one more frame.
RemoteWrite(h) ==
    /\ pc[h] = "remote"
    /\ Len(sink[h]) < MaxRemote
    /\ \E e \in RemoteEnvelopes(h) : sink' = [sink EXCEPT ![h] = Append(@, e)]
    /\ UNCHANGED << listener, accepted, peer, pc, current_client, message, point,
                    stream, storeVars, clientVars, historyVars >>

\* The server end drops the socket.
RemoteClose(h) ==
    /\ pc[h] = "remote"
    /\ pc' = [pc EXCEPT ![h] = "gone"]
    /\ UNCHANGED << listener, accepted, peer, current_client, message, point,
                    sink, stream, storeVars, clientVars, historyVars >>

ClientNext ==
    \/ \E h \in Conns : ClientConnect(h)
    \/ \E h \in Conns : ClientAwaitAck(h)
    \/ \E h \in Conns : ClientLoop(h)
    \/ \E h \in Conns : RemoteWrite(h)
    \/ \E h \in Conns : RemoteClose(h)

ClientSpec == ClientInit /\ [][ClientNext]_vars

----------------------------------------------------------------------------
\* Properties

\* The MoveCommands among the envelopes written on connection h.
Commands(h) == SelectSeq(sink[h], LAMBDA e : e.kind = "ServerMoveCommand")

\* The acknowledgements among the envelopes written on connection h.
Acks(h) == SelectSeq(sink[h], LAMBDA e : e.kind = "OnConnect")

Handshaked(h) == first_frame[h] = "ClientOnConnect"

\* No other connection uses the identifier of h.
SoleUser(h) == \A g \in Conns \ {h} : current_client[g] # current_client[h]

\* C1: a handler whose first frame was a CommandResponse or a Failed performs
\* no insert into the client store at any point of its run.
C1_HandshakeRejection ==
    \A h \in Conns :
        first_frame[h] \in {"ClientCommandResponse", "Failed"} => inserts[h] = 0

\* C2: a MoveCommand is written on a connection only after an OnConnect was
\* received on it as the first frame and the acknowledgement was written.
C2_CommandOnlyAfterHandshake ==
    \A h \in Conns :
        Commands(h) # << >> =>
            /\ Handshaked(h)
            /\ sink[h][1].kind = "OnConnect"

\* C3: the n-th MoveCommand written carries the n-th element of movements, and
\* the commands written exceed the responses read by at most one, never less.
C3_Ordering ==
    \A h \in Conns :
        /\ Len(Commands(h)) <= Len(movements)
        /\ \A n \in 1..Len(Commands(h)) :
              Commands(h)[n] = ServerMoveCommand(movements[n])
        /\ consumed[h] <= Len(Commands(h))
        /\ Len(Commands(h)) <= consumed[h] + 1

\* C3 witness: the fourth command is out and exactly three responses were read.
C3_Witness ==
    \E h \in Conns :
        /\ Len(Commands(h)) = 4
        /\ consumed[h] = 3
        /\ pc[h] = "loop_read"

\* Handler h holds a Failed envelope read in the loop and not yet inserted.
FailurePending(h) == message[h].kind = "Failed" /\ consumed[h] >= 1

\* C4: a Failed response read in the loop is inserted under the handler's
\* identifier as {server_command, current_position}; the handler then ends in
\* error; from the read on it writes nothing more on the connection.
C4_CommandFailure ==
    [][\A h \in Conns :
          /\ (~FailurePending(h) /\ FailurePending(h)') => pc'[h] \notin Terminal
          /\ FailurePending(h)
                => /\ sink'[h] = sink[h]
                   /\ point'[h] = point[h]
                   /\ inserts'[h] # inserts[h] =>
                        /\ pc'[h] = "error"
                        /\ current_client[h] \in DOMAIN clients'
                        /\ clients'[current_client[h]] =
                              ClientState(message[h].server_command,
                                          message[h].current_position)
                   /\ pc'[h] \in Terminal => inserts'[h] = inserts[h] + 1
          /\ pc[h] = "error" => (pc'[h] = "error" /\ sink'[h] = sink[h])
      ]_vars

\* C4 witness: a handler ended in error after inserting a failure, with
\* elements of movements left.
C4_Witness ==
    \E h \in Conns :
        /\ pc[h] = "error"
        /\ last_env[current_client[h]].kind = "Failed"
        /\ clients[current_client[h]] = ClientState("blocked", Point(0, 0, 3))
        /\ Len(Commands(h)) = 1

\* What the k-th response of the peer of h projects to.
ExpectedResponse(h, k) ==
    IF peer[h] = "client" THEN ClientState("success", movements[k])
    ELSE ClientState("success", Point(0, 0, 2 * k + 1))

\* Handler h has inserted every response it has read, and none was a Failed.
ResponsesInserted(h) ==
    pc[h] \in {"loop_send", "loop_read", "final_lock", "final_get", "closed"}

\* C5: for a handshaked handler that is the sole user of its identifier and
\* has read only CommandResponses, the store maps the identifier to the k-th
\* response once the handler has inserted it, the state reported at the end is
\* the last response, and for the shipped client it is the last of movements.
C5_RegistryTracking ==
    \A h \in Conns :
        (Handshaked(h) /\ SoleUser(h) /\ ResponsesInserted(h) /\ consumed[h] >= 1)
            => /\ current_client[h] \in DOMAIN clients
               /\ clients[current_client[h]] = ExpectedResponse(h, consumed[h])
               /\ pc[h] = "closed" =>
                    /\ consumed[h] = Len(movements)
                    /\ reported[h] = ExpectedResponse(h, Len(movements))
                    /\ peer[h] = "client" =>
                          reported[h] = ClientState("success", Point(0, 0, 6))

\* C5 witness: the handler of a shipped client, sole user of its name, closed
\* while another connection was served.
C5_Witness ==
    \E h \in Conns :
        /\ pc[h] = "closed"
        /\ peer[h] = "client"
        /\ SoleUser(h)
        /\ reported[h] = ClientState("success", Point(0, 0, 6))
        /\ \E g \in Conns \ {h} : inserts[g] >= 1

\* C6: a step in which a handler fails changes neither the acceptor nor any
\* other handler's position; the acceptor can accept after it; and the handler
\* of a shipped client never ends in failure, whatever the other handlers do.
C6_AcceptorIsolation ==
    /\ [](\A g \in Conns : peer[g] = "client" => pc[g] \notin {"error", "panicked"})
    /\ []((listener = "listening" /\ accepted < MaxConns)
             => ENABLED Accept(accepted + 1))
    /\ [][\A h \in Conns :
            (pc[h] \notin Terminal /\ pc'[h] \in {"error", "panicked"})
                => /\ listener' = listener
                   /\ accepted' = accepted
                   /\ \A g \in Conns \ {h} :
                         /\ pc'[g] = pc[g]
                         /\ reported'[g] = reported[g]
       ]_vars

\* C6 witness: the first handler panicked on its first read, the acceptor is
\* still listening, and the second handler closed gracefully.
C6_Witness ==
    /\ pc[1] = "panicked"
    /\ first_frame[1] \in {"StreamEnd", "FrameError"}
    /\ listener = "listening"
    /\ pc[2] = "closed"

\* The handlers spawned so far.
Running == { h \in Conns : pc[h] # "unborn" }

\* C7: once all handlers have finished, if they handshaked under pairwise
\* distinct identifiers, the store has one entry per handler and each entry is
\* the last state its handler wrote.
C7_ConcurrentRegistry ==
    (/\ Running # {}
     /\ \A h \in Running : pc[h] \in Terminal /\ Handshaked(h) /\ SoleUser(h))
        => /\ Cardinality(DOMAIN clients) = Cardinality(Running)
           /\ \A h \in Running :
                 /\ current_client[h] \in DOMAIN clients
                 /\ clients[current_client[h]] = last_written[h]

\* C7 witness: two handlers under distinct names finished after five inserts each.
C7_Witness ==
    /\ Cardinality(Running) >= 2
    /\ \A h \in Running :
          pc[h] \in Terminal /\ Handshaked(h) /\ SoleUser(h) /\ inserts[h] = 5

\* C8: the value of every key of the store is the projection of the envelope
\* of the latest insert for that key, and a key never inserted is absent.
C8_LastWriterWins ==
    \A k \in Keys :
        IF last_env[k] = NoMessage THEN k \notin DOMAIN clients
        ELSE /\ k \in DOMAIN clients
             /\ clients[k] = Into(last_env[k])

\* C8 witness: two handlers under one name have both inserted twice and the
\* store holds the state of one of them, which is not that of the other.
C8_Witness ==
    \E h, g \in Conns :
        /\ h # g
        /\ current_client[h] = current_client[g]
        /\ inserts[h] >= 2
        /\ inserts[g] >= 2
        /\ last_written[h] # last_written[g]
        /\ clients[current_client[h]] = last_written[g]

\* C9: a ClientOnConnect read in the loop ends the handler in error in the same
\* step, with the store untouched; afterwards the handler neither inserts nor
\* writes.
C9_SecondHandshake ==
    [][\A h \in Conns :
          /\ (pc[h] = "loop_read" /\ message'[h] # message[h]
                /\ message'[h].kind = "ClientOnConnect")
                => /\ pc'[h] = "error"
                   /\ clients' = clients
                   /\ sink'[h] = sink[h]
                   /\ inserts'[h] = inserts[h]
          /\ pc[h] = "error"
                => /\ pc'[h] = "error"
                   /\ sink'[h] = sink[h]
                   /\ inserts'[h] = inserts[h]
      ]_vars

\* C9 witness: a handshaked handler ended in error on a second ClientOnConnect
\* with elements of movements left.
C9_Witness ==
    \E h \in Conns :
        /\ pc[h] = "error"
        /\ Handshaked(h)
        /\ message[h].kind = "ClientOnConnect"
        /\ Len(Commands(h)) = 2
        /\ inserts[h] = 2

\* C10: the insert of the handshake stores {message, current_position} of the
\* ClientOnConnect under its client_name before anything is written; the
\* acknowledgement is the first envelope written, carries that name and
\* "hello", is written with the name in the store, and is the only one.
C10_HandshakeStep ==
    [][\A h \in Conns :
          /\ (Handshaked(h) /\ inserts[h] = 0 /\ inserts'[h] = 1)
                => /\ sink[h] = << >>
                   /\ message[h].client_name \in DOMAIN clients'
                   /\ clients'[message[h].client_name] =
                         ClientState(message[h].message, message[h].current_position)
                   /\ current_client[h] = message[h].client_name
          /\ (Handshaked(h) /\ sink[h] = << >> /\ sink'[h] # << >>)
                => /\ inserts[h] = 1
                   /\ current_client[h] \in DOMAIN clients
                   /\ sink'[h] = << ServerOnConnect(current_client[h], "hello") >>
          /\ Len(Acks(h)') <= 1
      ]_vars

\* C10 witness: the acknowledgement for "a" is written and "a" is in the store.
C10_Witness ==
    \E h \in Conns :
        /\ sink[h] = << ServerOnConnect("a", "hello") >>
        /\ "a" \in DOMAIN clients
        /\ peer[h] = "rogue"

\* C11: a read that yields the end of the stream or a frame that does not
\* decode ends the handler in failure in the same step, with no insert and
\* nothing written; a handler ended in failure never inserts or writes again.
C11_ReadFailureAborts ==
    [][\A h \in Conns :
          /\ (pc[h] \in {"hs_read", "loop_read"} /\ message'[h] # message[h]
                /\ message'[h].kind \in {"StreamEnd", "FrameError"})
                => /\ pc'[h] \in {"error", "panicked"}
                   /\ clients' = clients
                   /\ inserts'[h] = inserts[h]
                   /\ sink'[h] = sink[h]
          /\ (pc[h] \in {"hs_read", "loop_read"} /\ pc'[h] = pc[h])
                => message'[h] = message[h]
          /\ pc[h] \in {"error", "panicked"}
                => /\ pc'[h] = pc[h]
                   /\ inserts'[h] = inserts[h]
                   /\ sink'[h] = sink[h]
      ]_vars

\* C11 witness: a handshaked handler ended in error on a frame that does not
\* decode, read in answer to its first command.
C11_Witness ==
    \E h \in Conns :
        /\ pc[h] = "error"
        /\ message[h].kind = "FrameError"
        /\ inserts[h] = 1
        /\ Len(sink[h]) = 2

\* Handler h is suspended on, or about to start, a read or a write of its socket.
OnSocket(h) == pc[h] \in {"hs_read", "hs_send", "loop_send", "loop_read"}

\* Handler h is between lock().await and the drop of the guard.
InCriticalSection(h) == pc[h] \in {"hs_insert", "resp_insert", "fail_insert", "final_get"}

\* C12: a handler that reads or writes its socket does not hold the lock; the
\* holder is always inside a critical section, whose only step is the map
\* operation with the drop, and that step is enabled whatever the peers do.
C12_LockDiscipline ==
    \A h \in Conns :
        /\ OnSocket(h) => lock # h
        /\ lock = h =>
              /\ InCriticalSection(h)
              /\ ENABLED (HsInsert(h) \/ RespInsert(h) \/ FailInsert(h) \/ FinalGet(h))

\* C12 witness: one handler waits for its peer on a read while another
\* handler holds the lock.
C12_Witness ==
    \E h, g \in Conns :
        /\ h # g
        /\ pc[h] = "loop_read"
        /\ Incoming(h) = {}
        /\ lock = g

\* C13: every key of the store is the client_name of a ClientOnConnect that
\* some handler received as its first frame.
C13_KeyProvenance ==
    \A k \in DOMAIN clients :
        \E h \in Conns : Handshaked(h) /\ current_client[h] = k

\* The handlers waiting in lock().await.
Waiting == { h \in Conns : pc[h] \in {"hs_lock", "resp_lock", "fail_lock", "final_lock"} }

\* C14: at most one handler is inside a critical section and it is the holder
\* of the lock; the lock is free when nobody is inside; no ended handler holds it.
C14_MutualExclusion ==
    /\ Cardinality({ h \in Conns : InCriticalSection(h) }) <= 1
    /\ \A h \in Conns :
          /\ InCriticalSection(h) <=> lock = h
          /\ pc[h] \in Terminal => lock # h
    /\ lock \in Conns \cup {0}
    /\ (\A h \in Conns : pc[h] \in Terminal \cup {"unborn"}) => lock = 0

\* C14 witness: a handler has ended, another is inside its critical section
\* and a third party to the lock waits for it.
C14_Witness ==
    \E h, g \in Conns :
        /\ h # g
        /\ lock = h
        /\ pc[h] = "final_get"
        /\ g \in Waiting

\* C19: at the final lookup the store has an entry under the handler's
\* current_client, whatever its first frame was, so the lookup never fails.
C19_FinalLookupFinds ==
    \A h \in Conns :
        /\ pc[h] = "final_get" => current_client[h] \in DOMAIN clients
        /\ pc[h] = "closed" => reported[h] # NoState

\* C19 witness: a handler that never handshaked is at the final lookup, with
\* another handler alive.
C19_Witness ==
    \E h, g \in Conns :
        /\ h # g
        /\ pc[h] = "final_get"
        /\ current_client[h] = ""
        /\ pc[g] \notin Terminal \cup {"unborn"}

\* The envelopes handler h has received: its first frame and those of the loop.
Received(h) ==
    (IF first_frame[h] \in {"ClientOnConnect", "ClientCommandResponse", "Failed"}
     THEN 1 ELSE 0) + consumed[h]

\* C20: a handler writes at most one acknowledgement, at most one MoveCommand
\* per element of movements and nothing else, and inserts at most once per
\* envelope received.
C20_WriteAndInsertBounds ==
    \A h \in Conns :
        /\ Len(Acks(h)) <= 1
        /\ Len(Commands(h)) <= Len(movements)
        /\ Len(sink[h]) = Len(Acks(h)) + Len(Commands(h))
        /\ \A i \in 1..Len(sink[h]) : sink[h][i].kind # "ServerFailed"
        /\ inserts[h] <= Received(h)

\* C20 witness: a handler closed after one acknowledgement, four commands and
\* five inserts.
C20_Witness ==
    \E h \in Conns :
        /\ pc[h] = "closed"
        /\ Len(Acks(h)) = 1
        /\ Len(Commands(h)) = 4
        /\ inserts[h] = 5
        /\ Received(h) = 5

\* The MoveCommands the client has read after the first server envelope.
Moved(h) ==
    SelectSeq(SubSeq(sink[h], 2, client_read[h]),
              LAMBDA e : e.kind = "ServerMoveCommand")

\* What the client has written after its first frame.
Answers(h) == IF stream[h] = << >> THEN << >> ELSE Tail(stream[h])

\* C16: the client writes ClientOnConnect once, as its first frame, and then
\* only ClientCommandResponses; whenever it is about to read in the loop it has
\* answered every MoveCommand read so far, in order, with the commanded target,
\* and the agent stands at the last target; the step that reads a MoveCommand
\* moves the agent to the target and writes exactly one response carrying it
\* (or ends the run when the write fails on a dropped connection).
C16_ClientCommandHandling ==
    /\ [](\A h \in Conns :
            /\ client_pc[h] \in {"none", "start"} => stream[h] = << >>
            /\ client_pc[h] \in {"await_ack", "loop", "failed"} =>
                  /\ Len(stream[h]) >= 1
                  /\ stream[h][1] = ClientOnConnect(client_name[h], "hello", PointDefault)
                  /\ \A i \in 2..Len(stream[h]) :
                        stream[h][i].kind = "ClientCommandResponse"
            /\ Len(Answers(h)) <= Len(Moved(h))
            /\ client_pc[h] = "await_ack" => Answers(h) = << >>
            /\ client_pc[h] = "loop" =>
                  /\ Len(Answers(h)) = Len(Moved(h))
                  /\ \A k \in 1..Len(Moved(h)) :
                        Answers(h)[k] = ClientCommandResponse("success", Moved(h)[k].target)
                  /\ Moved(h) # << >> => agent[h] = Moved(h)[Len(Moved(h))].target)
    /\ [][\A h \in Conns :
            (/\ client_pc[h] = "loop"
             /\ client_read'[h] = client_read[h] + 1
             /\ sink[h][client_read'[h]].kind = "ServerMoveCommand")
            => /\ agent'[h] = sink[h][client_read'[h]].target
               /\ \/ /\ stream'[h] = Append(stream[h],
                           ClientCommandResponse("success", sink[h][client_read'[h]].target))
                     /\ client_pc'[h] = "loop"
                  \/ /\ pc[h] = "gone"
                     /\ stream'[h] = stream[h]
                     /\ client_pc'[h] = "failed"
       ]_vars

\* C16 witness: the client has answered two MoveCommands to different targets
\* and waits for the next envelope of a live server.
C16_Witness ==
    \E h \in Conns :
        /\ client_pc[h] = "loop"
        /\ pc[h] = "remote"
        /\ Len(Moved(h)) = 2
        /\ Moved(h)[1].target # Moved(h)[2].target
        /\ Len(stream[h]) = 3
        /\ agent[h] = Moved(h)[2].target

\* C17: the step in which the client reads ServerFailed or a second OnConnect
\* in the loop, or anything but OnConnect as the first server envelope, ends
\* the run with an error and writes nothing and leaves the agent; an ended
\* client stays ended, writes nothing and never moves the agent.
C17_ClientTerminalMessages ==
    [][\A h \in Conns :
          /\ (/\ client_pc[h] = "loop"
              /\ client_read'[h] = client_read[h] + 1
              /\ sink[h][client_read'[h]].kind \in {"ServerFailed", "OnConnect"})
             => /\ client_pc'[h] = "failed"
                /\ stream'[h] = stream[h]
                /\ agent'[h] = agent[h]
          /\ (/\ client_pc[h] = "await_ack"
              /\ client_read'[h] = client_read[h] + 1
              /\ sink[h][client_read'[h]].kind # "OnConnect")
             => /\ client_pc'[h] = "failed"
                /\ stream'[h] = stream[h]
                /\ agent'[h] = agent[h]
          /\ client_pc[h] = "failed"
             => /\ client_pc'[h] = "failed"
                /\ stream'[h] = stream[h]
                /\ agent'[h] = agent[h]
                /\ client_read'[h] = client_read[h]
    ]_vars

\* C17 witness: the client ended on ServerFailed after the handshake while a
\* MoveCommand of the server is still unread.
C17_Witness ==
    \E h \in Conns :
        /\ client_pc[h] = "failed"
        /\ client_read[h] = 2
        /\ sink[h][2].kind = "ServerFailed"
        /\ Len(sink[h]) = 3
        /\ sink[h][3].kind = "ServerMoveCommand"
        /\ Len(stream[h]) = 1

\* C15: under fair scheduling a handler whose peer is the client ends closed;
\* a closed handler has written one MoveCommand per element of movements, has
\* consumed as many responses and has read the snapshot of its identifier,
\* which, when no other connection uses the identifier, is the state of the
\* last response; and a handler at a read with nothing to read has no step.
C15_GracefulClose ==
    /\ \A h \in Conns : (peer[h] = "client" /\ pc[h] = "hs_read") ~> (pc[h] = "closed")
    /\ [](\A h \in Conns :
            /\ pc[h] = "closed" =>
                  /\ Len(Commands(h)) = Len(movements)
                  /\ \A i \in 1..Len(movements) : Commands(h)[i].target = movements[i]
                  /\ consumed[h] = Len(movements)
                  /\ reported[h] # NoState
                  /\ (peer[h] = "client" /\ SoleUser(h))
                        => reported[h] = ClientState("success", movements[Len(movements)])
            /\ (peer[h] = "client" /\ pc[h] \in Terminal) => pc[h] = "closed"
            /\ (pc[h] \in {"hs_read", "loop_read"} /\ Incoming(h) = {})
                  => ~ ENABLED (HsRead(h) \/ LoopRead(h)))

\* C15 witness: a handler serving the client is closed with the snapshot of
\* the last response while another handler is still running.
C15_Witness ==
    \E h, g \in Conns :
        /\ h # g
        /\ peer[h] = "client"
        /\ pc[h] = "closed"
        /\ reported[h] = ClientState("success", movements[Len(movements)])
        /\ Len(Commands(h)) = Len(movements)
        /\ pc[g] \notin Terminal \cup {"unborn"}

\* C18: the client and its handler never both wait to read with nothing in
\* flight; the client ends only by the stream end that follows the handler's
\* return, having read everything the handler wrote; and under fair scheduling
\* every client run ends with an error.
C18_NoDeadlockClientEnds ==
    /\ [](\A h \in Conns :
            /\ (/\ peer[h] = "client"
                /\ pc[h] \in {"hs_read", "loop_read"}
                /\ client_pc[h] \in {"await_ack", "loop"})
                  => Incoming(h) # {} \/ ServerIncoming(h) # {}
            /\ client_pc[h] \in {"none", "start", "await_ack", "loop", "failed"}
            /\ client_pc[h] = "failed" =>
                  /\ pc[h] = "closed"
                  /\ client_read[h] = Len(sink[h])
                  /\ agent[h] = movements[Len(movements)]
            /\ (peer[h] = "client" /\ pc[h] \in Terminal /\ client_pc[h] # "failed")
                  => /\ client_pc[h] = "loop"
                     /\ ENABLED ClientLoop(h))
    /\ \A h \in Conns : (peer[h] = "client") ~> (client_pc[h] = "failed")

\* C18 witness: the handler has closed and the client, still in its loop, has
\* read everything; its next read yields the stream end.
C18_Witness ==
    \E h \in Conns :
        /\ peer[h] = "client"
        /\ pc[h] = "closed"
        /\ client_pc[h] = "loop"
        /\ client_read[h] = Len(sink[h])
        /\ ServerIncoming(h) = { StreamEnd }

====
